---- MODULE Spec2Model ----
(***************************************************************************)
(* A model of aiphoto-tool.py: one run of the command-line process, from   *)
(* argument parsing through the command handler (input resolution,         *)
(* content assembly), call_gemini_api (client initialisation, the retried  *)
(* generate call, the response handling) to process exit.                  *)
(*                                                                         *)
(* Strings the program inspects (input references) are sequences of        *)
(* one-character strings, so that startswith, split and basename are       *)
(* computed as the code computes them.                                     *)
(***************************************************************************)
EXTENDS Integers, Sequences, FiniteSets, TLC

VARIABLES
    pc,          \* position of the process: "main", "load", "api", "generate",
                 \* "response", "except", "exit"
    args,        \* the command line: command, slots, prompt, aspect_ratio, output_file
    slot,        \* index of the next image slot the handler will look at
    contents,    \* the handler's content list
    client,      \* global client: 0 is None, n > 0 the n-th handle constructed
    gcs_client,  \* global gcs_client: FALSE is None
    tempDir,     \* TRUE while the handler's TemporaryDirectory exists
    tempFiles,   \* names of the files that exist inside the temporary directory
    strayDirs,   \* directories made by mkdtemp in load_image_part (never removed)
    attempt,     \* loop variable of the generate retry loop
    retry_delay, \* call_gemini_api's retry_delay
    response,    \* the response of the successful generate call
    api_error,   \* the message of the exception call_gemini_api's handler catches
    outfile,     \* what the file at output_path holds
    out,         \* the diagnostics printed so far, in order
    trace,       \* the calls made to the outside so far, in order
    exitStatus,  \* the process's exit status, -1 while it runs
    interrupted  \* TRUE once an exception has escaped the handler

vars == <<pc, args, slot, contents, client, gcs_client, tempDir, tempFiles,
          strayDirs, attempt, retry_delay, response, api_error, outfile, out,
          trace, exitStatus, interrupted>>

(***************************************************************************)
(* Bounds of the model.                                                    *)
(***************************************************************************)
\* longest tail, in characters, of a generated input reference
MaxLen == 3
\* most parts in a response candidate
MaxParts == 2

(***************************************************************************)
(* Strings.                                                                *)
(***************************************************************************)
None == <<"None">>

HTTP == <<"h", "t", "t", "p", ":", "/", "/">>
HTTPS == <<"h", "t", "t", "p", "s", ":", "/", "/">>
GS == <<"g", "s", ":", "/", "/">>

\* str.startswith(p)
StartsWith(s, p) == Len(s) >= Len(p) /\ SubSeq(s, 1, Len(p)) = p

\* index of the first character of s that is in cs, 0 when there is none
FirstIdx(s, cs) ==
    IF \E i \in 1..Len(s) : s[i] \in cs
    THEN CHOOSE i \in 1..Len(s) : s[i] \in cs /\ \A j \in 1..(i - 1) : s[j] \notin cs
    ELSE 0

\* index of the last character of s that is in cs, 0 when there is none
LastIdx(s, cs) ==
    IF \E i \in 1..Len(s) : s[i] \in cs
    THEN CHOOSE i \in 1..Len(s) : s[i] \in cs /\ \A j \in (i + 1)..Len(s) : s[j] \notin cs
    ELSE 0

\* s[i:]
From(s, i) == SubSeq(s, i, Len(s))

\* s.split('/', 1)
SplitFirst(s) ==
    LET i == FirstIdx(s, {"/"})
    IN IF i = 0 THEN <<s>> ELSE <<SubSeq(s, 1, i - 1), From(s, i + 1)>>

\* os.path.basename(s)
Basename(s) == From(s, LastIdx(s, {"/"}) + 1)

\* urllib.parse.urlparse(url).path, for a url that starts with http:// or https://
UrlPath(url) ==
    LET rest == From(url, FirstIdx(url, {":"}) + 3)
        i == FirstIdx(rest, {"/", "?", "#"})
        tail == IF i = 0 \/ rest[i] # "/" THEN <<>> ELSE From(rest, i)
        j == FirstIdx(tail, {"?", "#"})
    IN IF j = 0 THEN tail ELSE SubSeq(tail, 1, j - 1)

(***************************************************************************)
(* Configuration of the program.                                           *)
(***************************************************************************)
VALID_ASPECT_RATIOS ==
    {"21:9", "16:9", "4:3", "3:2", "1:1", "9:16", "3:4", "2:3", "5:4", "4:5"}

\* the default of every command's --aspect-ratio option
DEFAULT_ASPECT_RATIO == "16:9"

\* max_retries of initialize_client
init_max_retries == 3
\* max_retries of call_gemini_api
max_retries == 3
\* the first retry_delay of call_gemini_api
initial_retry_delay == 2
\* candidate_count of the generate configuration
candidate_count == 1

\* exit statuses of the process: the script falls off its end, argparse
\* rejects the command line, an exception reaches the interpreter
EXIT_OK == 0
EXIT_USAGE == 2
EXIT_UNCAUGHT == 1

Commands ==
    {"generate", "edit", "restore", "style_transfer", "compose", "add_text",
     "sketch_to_image"}

\* the image slots a command declares, in declaration order
SlotNames(command) ==
    CASE command = "generate" -> <<>>
      [] command = "style_transfer" -> <<"input_file", "style_ref_image">>
      [] command = "compose" -> <<"input_file1", "input_file2", "input_file3">>
      [] OTHER -> <<"input_file">>

\* the slots the argument parser insists on: positionals and required=True
RequiredSlot(command, k) == k = 1

\* the slots a handler guards with "if path:" before loading them
GuardedSlot(command, k) ==
    \/ command = "compose"
    \/ command = "style_transfer" /\ k = 2

\* Python truthiness of an optional string argument
Truthy(ref) == ref # None /\ ref # <<>>

(***************************************************************************)
(* Events of the trace and diagnostics.                                    *)
(***************************************************************************)
CtorEv(ok) == [ev |-> "Client", ok |-> ok]
SleepEv(secs) == [ev |-> "sleep", secs |-> secs]
InitEv(ret) == [ev |-> "initialize_client", ret |-> ret]
GcsCtorEv(ok) == [ev |-> "storage.Client", ok |-> ok]
GenerateEv(cs, config, ok, error) ==
    [ev |-> "generate_content", contents |-> cs, config |-> config, ok |-> ok,
     error |-> error]
FetchEv(kind, ref) == [ev |-> "fetch", kind |-> kind, ref |-> ref]
GcsDownloadEv(bucket, blob, ok) ==
    [ev |-> "download_to_filename", bucket |-> bucket, blob |-> blob, ok |-> ok]
ResolveEv(k, ref, ok) == [ev |-> "load_image_part", slot |-> k, ref |-> ref, ok |-> ok]
TempFileEv(f) == [ev |-> "temp file", name |-> f]
WriteEv(data, ok) == [ev |-> "write", data |-> data, ok |-> ok]

Events(tr, ev) == SelectSeq(tr, LAMBDA e : e.ev = ev)

(***************************************************************************)
(* initialize_client                                                       *)
(***************************************************************************)
\* what the environment does to one call of initialize_client: whether the
\* credentials and project resolve, whether each Client(...) attempt succeeds,
\* whether storage.Client(...) succeeds
InitEnvs ==
    [cred : BOOLEAN, ctor : [1..init_max_retries -> BOOLEAN], gcs : BOOLEAN]

\* a construction that is tried once only
CtorLoopOnce(att, ctor) ==
    [ok |-> ctor[att + 1], events |-> <<CtorEv(ctor[att + 1])>>]

\* the retry loop around Client(...): whether a client was constructed, and
\* the constructor calls and sleeps made
RECURSIVE CtorLoop(_, _)
CtorLoop(att, ctor) ==
    IF ctor[att + 1]
    THEN [ok |-> TRUE, events |-> <<CtorEv(TRUE)>>]
    ELSE IF att < init_max_retries - 1
         THEN LET r == CtorLoop(att + 1, ctor)
              IN [ok |-> r.ok,
                  events |-> <<CtorEv(FALSE), SleepEv(2 ^ att)>> \o r.events]
         ELSE [ok |-> FALSE, events |-> <<CtorEv(FALSE)>>]

\* an initialization that never takes the early return
ReuseNever(c) == FALSE

\* the early return of initialize_client: an existing client is reused
ReuseClient(c) == c # 0

\* the end of initialize_client, after the retry loop around Client(...) gave
\* loop: the object-store client is made
InitializeWith(loop, c, g, n, env) ==
    IF ~loop.ok
    THEN [client |-> c, gcs_client |-> g, events |-> loop.events \o <<InitEv(0)>>,
          out |-> <<"Error initializing client">>, ret |-> 0]
    ELSE IF ~env.gcs
    THEN [client |-> n + 1, gcs_client |-> g,
          events |-> loop.events \o <<GcsCtorEv(FALSE), InitEv(0)>>,
          out |-> <<"Error initializing client">>, ret |-> 0]
    ELSE [client |-> n + 1, gcs_client |-> TRUE,
          events |-> loop.events \o <<GcsCtorEv(TRUE), InitEv(n + 1)>>,
          out |-> <<"Client initialized">>, ret |-> n + 1]

\* initialize_client() with globals client = c and gcs_client = g, when n
\* handles have been constructed before: the new globals, the calls made, the
\* diagnostics printed and the value returned (0 is None)
InitializeClient(c, g, n, env) ==
    IF ReuseClient(c)
    THEN [client |-> c, gcs_client |-> g, events |-> <<InitEv(c)>>, out |-> <<>>,
          ret |-> c]
    ELSE IF ~env.cred
    THEN [client |-> c, gcs_client |-> g, events |-> <<InitEv(0)>>,
          out |-> <<"Error initializing client">>, ret |-> 0]
    ELSE InitializeWith(CtorLoop(0, env.ctor), c, g, n, env)

\* the number of client handles constructed so far
Constructed(tr) == Len(SelectSeq(tr, LAMBDA e : e.ev = "Client" /\ e.ok))

(***************************************************************************)
(* The resource locator: download_from_url, download_from_gcs,             *)
(* get_local_path, load_image_part.                                        *)
(***************************************************************************)
Chars(s) == {s[i] : i \in 1..Len(s)}

\* names under which no regular file can be created inside the directory
NotAFileName(f) == f \in {<<>>, <<".">>, <<".", ".">>}

DOWNLOADED_IMAGE ==
    <<"d", "o", "w", "n", "l", "o", "a", "d", "e", "d", "_", "i", "m", "a", "g", "e">>
DOT_JPG == <<".", "j", "p", "g">>
DOT_JPEG == <<".", "j", "p", "e", "g">>
DOT_PNG == <<".", "p", "n", "g">>
DOT_WEBP == <<".", "w", "e", "b", "p">>
DOT_BMP == <<".", "b", "m", "p">>
DOT_GIF == <<".", "g", "i", "f">>
HOME == <<"/", "r">>

\* the Content-Type header of a response, as the set of the words it contains
ContentTypes == {{"jpeg"}, {"png"}, {"webp"}, {}}
\* the preliminary request of download_from_url raised
HeadFailed == {"urlopen error"}

\* the extension download_from_url picks from a Content-Type header
ExtensionFor(content_type) ==
    IF "jpeg" \in content_type \/ "jpg" \in content_type THEN DOT_JPG
    ELSE IF "png" \in content_type THEN DOT_PNG
    ELSE IF "webp" \in content_type THEN DOT_WEBP
    ELSE DOT_JPG

\* what the environment does to one call of load_image_part
LoadEnvs ==
    [exists : BOOLEAN, head : ContentTypes \cup {HeadFailed},
     dl : {"ok", "fail", "partial"}, read : BOOLEAN, init : InitEnvs]

\* the result of a fetch: the local path (None on failure), the files the
\* temporary directory holds afterwards, the calls made, the diagnostics, the
\* globals
Fetched(path, files, events, diag, c, g) ==
    [path |-> path, files |-> files, events |-> events, out |-> diag,
     client |-> c, gcs_client |-> g]

\* the files of the temporary directory after a download to name f
AfterDownload(files, f, dl) ==
    IF NotAFileName(f) \/ dl = "fail" THEN files ELSE files \cup {f}

\* the record of the file a download creates
Created(f, dl) == IF NotAFileName(f) \/ dl = "fail" THEN <<>> ELSE <<TempFileEv(f)>>

\* the temporary path of a file: the directory is the handler's
TempPath(f) == <<"/", "t", "/">> \o f

\* download_from_url(url, temp_dir)
DownloadFromUrl(url, files, c, g, env) ==
    LET base == Basename(UrlPath(url))
        named == IF base = <<>> THEN DOWNLOADED_IMAGE ELSE base
        probe == "." \notin Chars(named)
        filename == IF probe /\ env.head # HeadFailed
                    THEN named \o ExtensionFor(env.head) ELSE named
        ok == env.dl = "ok" /\ ~NotAFileName(filename)
    IN IF probe /\ env.head = HeadFailed
       THEN Fetched(None, files, <<>>, <<"Error downloading from URL">>, c, g)
       ELSE IF ok
       THEN Fetched(TempPath(filename), AfterDownload(files, filename, env.dl),
                    Created(filename, env.dl), <<>>, c, g)
       ELSE Fetched(None, AfterDownload(files, filename, env.dl),
                    Created(filename, env.dl), <<"Error downloading from URL">>, c, g)

\* the validation of the split reference in download_from_gcs
ValidGcsParts(parts) == Len(parts) = 2

\* the end of download_from_gcs, after the client check gave init: the use of
\* gcs_client and the download of the blob to the temporary path
GcsFetch(init, bucket_name, blob_name, filename, files, env) ==
    IF ~init.gcs_client \/ bucket_name = <<>>
    \* gcs_client is None, or the library refuses the bucket name
    THEN Fetched(None, files, init.events,
                 init.out \o <<"Error downloading from GCS">>,
                 init.client, init.gcs_client)
    ELSE IF env.dl = "ok" /\ ~NotAFileName(filename)
    THEN Fetched(TempPath(filename), AfterDownload(files, filename, env.dl),
                 init.events \o <<GcsDownloadEv(bucket_name, blob_name, TRUE)>>
                 \o Created(filename, env.dl),
                 init.out, init.client, init.gcs_client)
    ELSE Fetched(None, AfterDownload(files, filename, env.dl),
                 init.events \o <<GcsDownloadEv(bucket_name, blob_name, FALSE)>>
                 \o Created(filename, env.dl),
                 init.out \o <<"Error downloading from GCS">>,
                 init.client, init.gcs_client)

\* "if not gcs_client" in download_from_gcs
NeedsGcsInit(g) == ~g

\* the bucket and blob names download_from_gcs has split the path into
GcsSplit(parts, files, c, g, n, env) ==
    IF ~ValidGcsParts(parts)
    THEN Fetched(None, files, <<>>, <<"Error: Invalid GCS path format">>, c, g)
    ELSE GcsFetch(IF NeedsGcsInit(g) THEN InitializeClient(c, g, n, env.init)
                  ELSE [client |-> c, gcs_client |-> g, events |-> <<>>,
                        out |-> <<>>, ret |-> c],
                  parts[1], parts[2], Basename(parts[2]), files, env)

\* download_from_gcs(gcs_path, temp_dir), when n handles were constructed before
DownloadFromGcs(gcs_path, files, c, g, n, env) ==
    IF ~StartsWith(gcs_path, GS)
    THEN Fetched(None, files, <<>>, <<"Error: Invalid GCS path format">>, c, g)
    ELSE GcsSplit(SplitFirst(From(gcs_path, 6)), files, c, g, n, env)

\* os.path.expanduser(p)
ExpandUser(p) ==
    IF StartsWith(p, <<"~">>) /\ (Len(p) = 1 \/ p[2] = "/")
    THEN HOME \o From(p, 2) ELSE p

\* a classification that knows one web scheme only
FetchKindHttpOnly(input_path) ==
    IF StartsWith(input_path, HTTP) THEN "url"
    ELSE IF StartsWith(input_path, GS) THEN "gcs"
    ELSE "local"

\* the branch get_local_path takes for an input path
FetchKind(input_path) ==
    IF StartsWith(input_path, HTTP) \/ StartsWith(input_path, HTTPS) THEN "url"
    ELSE IF StartsWith(input_path, GS) THEN "gcs"
    ELSE "local"

\* the result r of the fetch strategy of the given kind, with the strategy's
\* invocation on ref recorded ahead of what it did
Invoked(kind, ref, r) == [r EXCEPT !.events = <<FetchEv(kind, ref)>> \o @]

\* the local branch of get_local_path
LocalFile(input_path, files, c, g, env) ==
    IF env.exists
    THEN Fetched(ExpandUser(input_path), files, <<>>, <<>>, c, g)
    ELSE Fetched(None, files, <<>>, <<"Error: Local file not found">>, c, g)

\* get_local_path(input_path, temp_dir)
GetLocalPath(input_path, files, c, g, n, env) ==
    CASE FetchKind(input_path) = "url" ->
           Invoked("url", input_path, DownloadFromUrl(input_path, files, c, g, env))
      [] FetchKind(input_path) = "gcs" ->
           Invoked("gcs", input_path,
                   DownloadFromGcs(input_path, files, c, g, n, env))
      [] OTHER ->
           Invoked("local", input_path, LocalFile(input_path, files, c, g, env))

\* str.lower() on the letters the extensions use
LowerChar(ch) ==
    CASE ch = "P" -> "p" [] ch = "N" -> "n" [] ch = "G" -> "g" [] ch = "J" -> "j"
      [] OTHER -> ch
Lower(s) == [i \in 1..Len(s) |-> LowerChar(s[i])]

\* os.path.splitext(p)[1]
RECURSIVE StripDots(_)
StripDots(b) == IF b # <<>> /\ b[1] = "." THEN StripDots(Tail(b)) ELSE b
SplitExt(p) ==
    LET b == StripDots(Basename(p))
        i == LastIdx(b, {"."})
    IN IF i = 0 THEN <<>> ELSE From(b, i)

\* the MIME type load_image_part gives a local path: the type guessed from the
\* extension, else the extension map, else image/jpeg
MimeType(local_path) ==
    LET ext == Lower(SplitExt(local_path))
    IN CASE ext \in {DOT_JPG, DOT_JPEG} -> "image/jpeg"
         [] ext = DOT_PNG -> "image/png"
         [] ext = DOT_WEBP -> "image/webp"
         [] ext = DOT_BMP -> "image/bmp"
         [] ext = DOT_GIF -> "image/gif"
         [] OTHER -> "image/jpeg"

\* content parts: Part.from_bytes(data, mime_type), and a prompt string
ImagePart(data, mime_type) == [part |-> "image", data |-> data, mime_type |-> mime_type]
TextPart(text) == [part |-> "text", text |-> text]
NoPart == [part |-> "None"]

\* the end of load_image_part, after get_local_path gave r: the file is read
\* and the part made. The bytes read are named by the reference they come from.
ReadPart(r, image_path, stray, env) ==
    [part |-> IF r.path = None \/ ~env.read THEN NoPart
              ELSE ImagePart(image_path, MimeType(r.path)),
     files |-> r.files, events |-> r.events,
     out |-> IF r.path = None THEN r.out
             ELSE IF ~env.read THEN r.out \o <<"Error loading image">>
             ELSE r.out \o <<"Loaded image">>,
     client |-> r.client, gcs_client |-> r.gcs_client, stray |-> stray]

\* load_image_part(image_path, temp_dir): temp_dir_given is FALSE when the
\* caller passes no temp_dir, and the directory mkdtemp makes then is counted
\* in stray
LoadImagePart(image_path, temp_dir_given, files, c, g, n, env) ==
    ReadPart(GetLocalPath(image_path, files, c, g, n, env), image_path,
             IF temp_dir_given THEN 0 ELSE 1, env)

\* the environment choices that matter to loading ref when gcs_client is g
LoadEnvsFor(ref, g) ==
    LET kind == FetchKind(ref)
    IN {env \in LoadEnvs :
          /\ kind # "local" => env.exists
          /\ kind # "url" => env.head = {}
          /\ kind = "local" => env.dl = "ok"
          /\ (kind # "gcs" \/ g) =>
                env.init = [cred |-> TRUE, ctor |-> [i \in 1..init_max_retries |-> TRUE],
                            gcs |-> TRUE]}

(***************************************************************************)
(* The command line.                                                       *)
(***************************************************************************)
NotGiven == "not given"
PROMPT == "P"
OUTPUT_FILE == "out.png"

\* validate_aspect_ratio(value): whether the value is accepted
ValidateAspectRatio(value) == value \in VALID_ASPECT_RATIOS

\* parser.parse_args(): whether argparse accepts the command line
ParseOk(a) ==
    /\ a.aspect_ratio # NotGiven => ValidateAspectRatio(a.aspect_ratio)
    /\ \A k \in 1..Len(a.slots) :
          RequiredSlot(a.command, k) => a.slots[k] # None

\* the namespace parse_args returns: defaults filled in
Parsed(a) ==
    [a EXCEPT !.aspect_ratio = IF @ = NotGiven THEN DEFAULT_ASPECT_RATIO ELSE @]

\* all sequences over S of length at most n
SeqsUpTo(S, n) == UNION {[1..k -> S] : k \in 0..n}

\* input references of the full runs: a local file and an object
LOCAL_REF == <<"a", ".", "p", "n", "g">>
GCS_REF == GS \o <<"b", "/", "k", ".", "p", "n", "g">>
SlotRefs == {LOCAL_REF, GCS_REF}

\* the command lines of the given commands whose slots are absent, empty or
\* one of refs and whose aspect ratio is one of aspects
CommandLines(commands, refs, aspects) ==
    UNION {{[command |-> c, slots |-> s, prompt |-> PROMPT, aspect_ratio |-> a,
             output_file |-> OUTPUT_FILE] :
               s \in [1..Len(SlotNames(c)) -> refs], a \in aspects} : c \in commands}

\* generated input references: a scheme prefix (or a near miss of one, or
\* none) followed by a tail of at most MaxLen characters
Prefixes ==
    {<<>>, HTTP, HTTPS, GS, <<"g", "s", ":", "/">>, <<"G", "S", ":", "/", "/">>,
     <<"h", "t", "t", "p", ":", "/">>}
GenRefs == {p \o t : p \in Prefixes, t \in SeqsUpTo({"b", "/", "."}, MaxLen)}

\* what the file at output_path holds: 0 what it held before the run (or
\* nothing), -1 a truncated or partial write, n > 0 image payload n
UNTOUCHED == 0
TRUNCATED == -1

NoResponse == [candidates |-> <<>>, received |-> FALSE]

InitWith(a) ==
    /\ pc = "main"
    /\ args = a
    /\ slot = 0
    /\ contents = <<>>
    /\ client = 0
    /\ gcs_client = FALSE
    /\ tempDir = FALSE
    /\ tempFiles = {}
    /\ strayDirs = 0
    /\ attempt = 0
    /\ retry_delay = 0
    /\ response = NoResponse
    /\ api_error = {}
    /\ outfile = UNTOUCHED
    /\ out = <<>>
    /\ trace = <<>>
    /\ exitStatus = -1
    /\ interrupted = FALSE

\* every command, every way of filling its slots, the default aspect ratio
Init ==
    \E a \in CommandLines(Commands, SlotRefs \cup {None, <<>>}, {NotGiven}) :
        InitWith(a)

\* every aspect ratio, an invalid one and none at all
InitAspect ==
    \E a \in CommandLines({"generate", "edit"}, {LOCAL_REF},
                          VALID_ASPECT_RATIOS \cup {NotGiven, "7:5"}) :
        InitWith(a)

\* one image slot, every generated reference
InitLocator ==
    \E a \in CommandLines({"edit"}, GenRefs, {NotGiven}) :
        InitWith(a)

(***************************************************************************)
(* The main program and the command handlers.                              *)
(***************************************************************************)
\* __main__: parse the command line; argparse exits with EXIT_USAGE on a
\* command line it rejects
Main ==
    /\ pc = "main"
    /\ IF ParseOk(args)
       THEN /\ args' = Parsed(args)
            /\ pc' = "handler"
            /\ UNCHANGED <<out, exitStatus>>
       ELSE /\ out' = Append(out, "usage error")
            /\ exitStatus' = EXIT_USAGE
            /\ pc' = "exit"
            /\ UNCHANGED args
    /\ UNCHANGED <<slot, contents, client, gcs_client, tempDir, tempFiles,
                   strayDirs, attempt, retry_delay, response, api_error, outfile,
                   trace, interrupted>>

\* args.func(args): handle_generate builds its contents and calls the API,
\* every other handler enters its TemporaryDirectory block
HandlerEnter ==
    /\ pc = "handler"
    /\ IF args.command = "generate"
       THEN /\ contents' = <<TextPart(args.prompt)>>
            /\ pc' = "api"
            /\ UNCHANGED <<tempDir, slot>>
       ELSE /\ contents' = <<>>
            /\ tempDir' = TRUE
            /\ slot' = 1
            /\ pc' = "load"
    /\ UNCHANGED <<args, client, gcs_client, tempFiles, strayDirs, attempt,
                   retry_delay, response, api_error, outfile, out, trace,
                   exitStatus, interrupted>>

\* a block that leaves its directory behind
CleanupKeeps(files) == [dir |-> TRUE, files |-> files]

\* leaving the handler's TemporaryDirectory block: the directory and what it
\* holds are removed
Cleanup(files) == [dir |-> FALSE, files |-> {}]

\* a handler that goes on after an image that did not load
AfterSlotGoesOn(part, k, n) == IF k < n THEN "load" ELSE "assemble"

\* where a handler goes after looking at slot k of n: it returns when the
\* image did not load, else goes on to the next slot or finishes the contents
AfterSlot(part, k, n) ==
    IF part = NoPart THEN "return" ELSE IF k < n THEN "load" ELSE "assemble"

\* the handler's contents after slot k gave part (None when it was skipped)
WithPart(cs, part) == IF part = NoPart THEN cs ELSE Append(cs, part)

\* the end of the handler's assembly: the prompt goes last
WithPrompt(cs, prompt) == Append(cs, TextPart(prompt))

\* the handler after slot k gave part (None when skipped) and goto says where
\* to go: its position, slot index, contents and diagnostic
Continue(command, prompt, cs, k, part, goto) ==
    LET cs2 == WithPart(cs, part)
    IN IF goto = "load"
       THEN [pc |-> "load", slot |-> k + 1, contents |-> cs2, out |-> <<>>]
       ELSE IF goto = "return"
       THEN [pc |-> "return", slot |-> k, contents |-> cs, out |-> <<>>]
       ELSE IF command = "compose" /\ cs2 = <<>>
       THEN [pc |-> "return", slot |-> k, contents |-> cs,
             out |-> <<"Error: At least one input image is required">>]
       ELSE [pc |-> "api", slot |-> k, contents |-> WithPrompt(cs2, prompt),
             out |-> <<>>]

\* the handler's step for slot k of n, once the image was loaded (or the
\* slot skipped) with result r
SlotStep(r, skipped, command, prompt, cs, k, n) ==
    Continue(command, prompt, cs, k, r.part,
             IF skipped THEN (IF k < n THEN "load" ELSE "assemble")
             ELSE AfterSlot(r.part, k, n))
    @@ [r |-> r]

\* one image slot of a handler: skipped when guarded and not set, else loaded
LoadSlot ==
    /\ pc = "load"
    /\ \E env \in LoadEnvsFor(args.slots[slot], gcs_client) :
         LET ref == args.slots[slot]
             skipped == GuardedSlot(args.command, slot) /\ ~Truthy(ref)
             nx == SlotStep(IF skipped
                            THEN [part |-> NoPart, files |-> tempFiles,
                                  events |-> <<>>, out |-> <<>>, client |-> client,
                                  gcs_client |-> gcs_client, stray |-> 0]
                            ELSE LoadImagePart(ref, TRUE, tempFiles, client,
                                               gcs_client, Constructed(trace), env),
                            skipped, args.command, args.prompt, contents, slot,
                            Len(args.slots))
         IN /\ slot' = nx.slot
            /\ contents' = nx.contents
            /\ client' = nx.r.client
            /\ gcs_client' = nx.r.gcs_client
            /\ IF nx.pc = "return"
               \* the handler returns, the script ends
               THEN /\ tempDir' = Cleanup(nx.r.files).dir
                    /\ tempFiles' = Cleanup(nx.r.files).files
                    /\ exitStatus' = EXIT_OK
                    /\ pc' = "exit"
               ELSE /\ tempFiles' = nx.r.files
                    /\ pc' = nx.pc
                    /\ UNCHANGED <<tempDir, exitStatus>>
            /\ strayDirs' = strayDirs + nx.r.stray
            /\ out' = out \o nx.r.out \o nx.out
            /\ trace' = IF skipped THEN trace
                        ELSE trace \o nx.r.events
                             \o <<ResolveEv(slot, ref, nx.r.part # NoPart)>>
    /\ UNCHANGED <<args, attempt, retry_delay, response, api_error, outfile,
                   interrupted>>

(***************************************************************************)
(* call_gemini_api                                                         *)
(***************************************************************************)
\* the GenerateContentConfig call_gemini_api builds for an aspect ratio
Config(aspect_ratio) ==
    [response_modalities |-> <<"IMAGE">>, candidate_count |-> candidate_count]

\* the start of call_gemini_api: the client, the contents check, the
\* configuration and the retry loop's variables
ApiEnter ==
    /\ pc = "api"
    /\ \E env \in InitEnvs :
         LET r == InitializeClient(client, gcs_client, Constructed(trace), env)
         IN /\ client' = r.client
            /\ gcs_client' = r.gcs_client
            /\ trace' = trace \o r.events
            /\ IF r.ret = 0 \/ contents = <<>>
               \* call_gemini_api returns, the handler returns, the script ends
               THEN /\ out' = out \o r.out \o
                              <<IF r.ret = 0 THEN "Client not initialized. Cannot proceed."
                                ELSE "Error: No content provided">>
                    /\ tempDir' = Cleanup(tempFiles).dir
                    /\ tempFiles' = Cleanup(tempFiles).files
                    /\ exitStatus' = EXIT_OK
                    /\ pc' = "exit"
                    /\ UNCHANGED <<attempt, retry_delay>>
               ELSE /\ out' = out \o r.out
                    /\ attempt' = 0
                    /\ retry_delay' = initial_retry_delay
                    /\ pc' = "generate"
                    /\ UNCHANGED <<tempDir, tempFiles, exitStatus>>
    /\ UNCHANGED <<args, slot, contents, strayDirs, response, api_error, outfile,
                   interrupted>>

\* an error message, as the set of the markers its text contains
Markers == {"503", "UNAVAILABLE", "PERMISSION_DENIED", "404", "not found"}
ErrorInputs == {{m} : m \in Markers} \cup {{}}

\* the error test of the retry loop
Retryable(msg) == "503" \in msg \/ "UNAVAILABLE" \in msg

\* a retry test that allows one attempt more
RetriesOneMore(msg, att) == Retryable(msg) /\ att < max_retries

\* whether the retry loop sleeps and tries again after a failed attempt
Retries(msg, att) == Retryable(msg) /\ att < max_retries - 1

\* retry_delay after a sleep
NextDelay(delay) == delay * 2

\* the output parts of a response: an image payload (bytes 1 or 2), a text
PartInputs ==
    {[data |-> 1, text |-> FALSE], [data |-> 2, text |-> FALSE],
     [data |-> 0, text |-> TRUE]}

\* the responses of the backend: at most candidate_count candidates
Responses ==
    {[candidates |-> cs, received |-> TRUE] :
        cs \in SeqsUpTo(SeqsUpTo(PartInputs, MaxParts), candidate_count)}

\* one iteration of the retry loop: the generate call, then leaving the loop
\* with the response, sleeping before the next attempt, or raising
Generate ==
    /\ pc = "generate"
    /\ \E ok \in BOOLEAN, resp \in Responses, msg \in ErrorInputs :
         LET call == GenerateEv(contents, Config(args.aspect_ratio), ok, msg)
         IN /\ ok => msg = {}
            /\ ~ok => resp = [candidates |-> <<>>, received |-> TRUE]
            /\ IF ok
               THEN /\ response' = resp
                    /\ trace' = Append(trace, call)
                    /\ pc' = "response"
                    /\ UNCHANGED <<attempt, retry_delay, api_error, out>>
               ELSE IF Retries(msg, attempt)
               THEN /\ out' = Append(out, "Service temporarily unavailable, retrying")
                    /\ trace' = trace \o <<call, SleepEv(retry_delay)>>
                    /\ retry_delay' = NextDelay(retry_delay)
                    /\ attempt' = attempt + 1
                    /\ pc' = "generate"
                    /\ UNCHANGED <<response, api_error>>
               ELSE /\ api_error' = msg
                    /\ trace' = Append(trace, call)
                    /\ pc' = "except"
                    /\ UNCHANGED <<attempt, retry_delay, response, out>>
    /\ UNCHANGED <<args, slot, contents, client, gcs_client, tempDir, tempFiles,
                   strayDirs, outfile, exitStatus, interrupted>>

\* what writing an image to output_path can do: succeed, fail at open (the
\* file is left as it was), fail after open (the file is truncated or partial)
WriteOutcomes == {"ok", "open fails", "write fails"}

\* the parts of all candidates, in the order the two loops visit them
RECURSIVE Flatten(_)
Flatten(cands) == IF cands = <<>> THEN <<>> ELSE Head(cands) \o Flatten(Tail(cands))

\* a write that does not replace an image already written
FileAfterKeeps(file, data, write) ==
    IF file # UNTOUCHED THEN file
    ELSE CASE write = "ok" -> data
           [] write = "open fails" -> file
           [] OTHER -> TRUNCATED

\* the output file after open(output_path, "wb") and f.write(data)
FileAfter(file, data, write) ==
    CASE write = "ok" -> data
      [] write = "open fails" -> file
      [] OTHER -> TRUNCATED

\* has_image after the write of an image part
HasImageAfter(has_image, write) == has_image \/ write = "ok"

\* the loops over candidates and parts, from part i on: st holds the file,
\* has_image, the diagnostics and the writes made so far
RECURSIVE HandleParts(_, _, _, _)
HandleParts(parts, i, w, st) ==
    IF i > Len(parts) THEN st
    ELSE LET part == parts[i]
         IN IF part.data # 0
            THEN HandleParts(parts, i + 1, w,
                   [file |-> FileAfter(st.file, part.data, w[i]),
                    has_image |-> HasImageAfter(st.has_image, w[i]),
                    out |-> st.out \o
                            <<IF w[i] = "ok" THEN "Output image saved"
                              ELSE "Error saving image">>,
                    events |-> Append(st.events, WriteEv(part.data, w[i] = "ok"))])
            ELSE IF part.text
            THEN HandleParts(parts, i + 1, w,
                   [st EXCEPT !.out = Append(@, "Model Text Response")])
            ELSE HandleParts(parts, i + 1, w, st)

\* the response handling of call_gemini_api
HandleResponse ==
    /\ pc = "response"
    /\ IF response.candidates # <<>>
       THEN LET parts == Flatten(response.candidates)
            IN \E w \in [1..Len(parts) -> WriteOutcomes] :
                 LET st == HandleParts(parts, 1, w,
                             [file |-> outfile, has_image |-> FALSE, out |-> <<>>,
                              events |-> <<>>])
                 IN /\ \A i \in 1..Len(parts) : parts[i].data = 0 => w[i] = "ok"
                    /\ outfile' = st.file
                    /\ trace' = trace \o st.events
                    /\ out' = out \o st.out \o
                              (IF st.has_image THEN <<>>
                               ELSE <<"No image data received in the response.">>)
       ELSE /\ out' = Append(out, "No candidates returned in the response.")
            /\ UNCHANGED <<outfile, trace>>
    \* call_gemini_api returns, the handler returns, the script ends
    /\ tempDir' = Cleanup(tempFiles).dir
    /\ tempFiles' = Cleanup(tempFiles).files
    /\ exitStatus' = EXIT_OK
    /\ pc' = "exit"
    /\ UNCHANGED <<args, slot, contents, client, gcs_client, strayDirs, attempt,
                   retry_delay, response, api_error, interrupted>>

\* the diagnostic the exception handler of call_gemini_api prints
Diagnose(msg) ==
    IF "PERMISSION_DENIED" \in msg THEN "Permission error"
    ELSE IF "404" \in msg \/ "not found" \in msg THEN "Model not found error"
    ELSE "An error occurred during API call"

\* the exception handler of call_gemini_api
HandleApiError ==
    /\ pc = "except"
    /\ out' = Append(out, Diagnose(api_error))
    \* call_gemini_api returns, the handler returns, the script ends
    /\ tempDir' = Cleanup(tempFiles).dir
    /\ tempFiles' = Cleanup(tempFiles).files
    /\ exitStatus' = EXIT_OK
    /\ pc' = "exit"
    /\ UNCHANGED <<args, slot, contents, client, gcs_client, strayDirs, attempt,
                   retry_delay, response, api_error, outfile, trace, interrupted>>

\* the positions where the process blocks on the network or sleeps
Blocking == {"load", "api", "generate"}

\* an exception none of the handlers catches (a KeyboardInterrupt while the
\* process blocks) is raised inside the handler: the TemporaryDirectory block
\* is left, the interpreter exits
Interrupt ==
    /\ pc \in Blocking
    /\ tempDir' = Cleanup(tempFiles).dir
    /\ tempFiles' = Cleanup(tempFiles).files
    /\ interrupted' = TRUE
    /\ exitStatus' = EXIT_UNCAUGHT
    /\ pc' = "exit"
    /\ UNCHANGED <<args, slot, contents, client, gcs_client, strayDirs, attempt,
                   retry_delay, response, api_error, outfile, out, trace>>

Next ==
    \/ Main
    \/ HandlerEnter
    \/ LoadSlot
    \/ ApiEnter
    \/ Generate
    \/ HandleResponse
    \/ HandleApiError
    \/ Interrupt

Spec == Init /\ [][Next]_vars

SpecAspect == InitAspect /\ [][Next]_vars

\* the run up to the end of the handler's input resolution
NextLocator ==
    \/ Main
    \/ HandlerEnter
    \/ LoadSlot
    \/ Interrupt

SpecLocator == InitLocator /\ [][NextLocator]_vars

(***************************************************************************)
(* The functions of the module called one after another in one process,    *)
(* as a caller of initialize_client and download_from_gcs does.            *)
(***************************************************************************)
\* the number of calls a caller makes
MaxCalls == 3

CallEv(name) == [ev |-> "call", name |-> name]

\* the process before any call: the globals unset, a directory of the caller
\* to download into
InitCalls ==
    /\ pc = "calls"
    /\ args = [command |-> "none", slots |-> <<>>, prompt |-> PROMPT,
               aspect_ratio |-> DEFAULT_ASPECT_RATIO, output_file |-> OUTPUT_FILE]
    /\ slot = 0
    /\ contents = <<>>
    /\ client = 0
    /\ gcs_client = FALSE
    /\ tempDir = TRUE
    /\ tempFiles = {}
    /\ strayDirs = 0
    /\ attempt = 0
    /\ retry_delay = 0
    /\ response = NoResponse
    /\ api_error = {}
    /\ outfile = UNTOUCHED
    /\ out = <<>>
    /\ trace = <<>>
    /\ exitStatus = -1
    /\ interrupted = FALSE

\* a call of initialize_client()
CallInitializeClient ==
    /\ pc = "calls"
    /\ Len(Events(trace, "call")) < MaxCalls
    /\ \E env \in InitEnvs :
         LET r == InitializeClient(client, gcs_client, Constructed(trace), env)
         IN /\ client' = r.client
            /\ gcs_client' = r.gcs_client
            /\ trace' = trace \o <<CallEv("initialize_client")>> \o r.events
            /\ out' = out \o r.out
    /\ UNCHANGED <<pc, args, slot, contents, tempDir, tempFiles, strayDirs, attempt,
                   retry_delay, response, api_error, outfile, exitStatus,
                   interrupted>>

\* a call of download_from_gcs(GCS_REF, temp_dir)
CallDownloadFromGcs ==
    /\ pc = "calls"
    /\ Len(Events(trace, "call")) < MaxCalls
    /\ \E env \in LoadEnvsFor(GCS_REF, gcs_client) :
         LET r == DownloadFromGcs(GCS_REF, tempFiles, client, gcs_client,
                                  Constructed(trace), env)
         IN /\ client' = r.client
            /\ gcs_client' = r.gcs_client
            /\ tempFiles' = r.files
            /\ trace' = trace \o <<CallEv("download_from_gcs")>> \o r.events
            /\ out' = out \o r.out
    /\ UNCHANGED <<pc, args, slot, contents, tempDir, strayDirs, attempt,
                   retry_delay, response, api_error, outfile, exitStatus,
                   interrupted>>

NextCalls ==
    \/ CallInitializeClient
    \/ CallDownloadFromGcs

SpecCalls == InitCalls /\ [][NextCalls]_vars

(***************************************************************************)
(* Properties.                                                             *)
(***************************************************************************)
Generates(tr) == Events(tr, "generate_content")
Resolves(tr) == Events(tr, "load_image_part")

\* the trace from the first generate call on
FirstGenerate(tr) ==
    CHOOSE i \in 1..Len(tr) :
        tr[i].ev = "generate_content" /\ \A j \in 1..(i - 1) : tr[j].ev # "generate_content"
ApiTail(tr) == SubSeq(tr, FirstGenerate(tr), Len(tr))
Kinds(tr) == [i \in 1..Len(tr) |-> tr[i].ev]

\* a transient error, by its message
Transient(msg) == msg \cap {"503", "UNAVAILABLE"} # {}

\* the retry loop was left and nothing cut the run short
LoopOver == pc \in {"response", "except"} \/ (pc = "exit" /\ ~interrupted)

ApiErrorDiagnostics ==
    {"Permission error", "Model not found error", "An error occurred during API call"}

AllTransient(g) == \A i \in 1..Len(g) : ~g[i].ok /\ Transient(g[i].error)

\* C1: when every generate call failed with a transient error ("503" or
\* "UNAVAILABLE" in the message) and the retry loop is over, exactly 3 generate
\* calls were made, with a sleep of 2 seconds after the first and of 4 seconds
\* after the second and none after the third, and the error is raised to the
\* exception handler, which reports it; when the first generate call failed
\* with a non-transient error, it is the only generate call and no sleep
\* follows it.
C1_RetryBound ==
    Generates(trace) # <<>> =>
        LET g == Generates(trace)
            tail == ApiTail(trace)
        IN /\ (LoopOver /\ AllTransient(g)) =>
                 /\ Len(g) = 3
                 /\ Kinds(tail) = <<"generate_content", "sleep", "generate_content",
                                    "sleep", "generate_content">>
                 /\ tail[2].secs = 2
                 /\ tail[4].secs = 4
                 /\ \/ pc = "except" /\ api_error = g[3].error
                    \/ pc = "exit" /\ out[Len(out)] \in ApiErrorDiagnostics
           /\ (~g[1].ok /\ ~Transient(g[1].error)) =>
                 /\ tail = <<g[1]>>
                 /\ pc \in {"except", "exit"}

\* three transient failures were reported, the last one as "UNAVAILABLE"
C1_Witness ==
    /\ pc = "exit" /\ ~interrupted
    /\ Len(Generates(trace)) = 3
    /\ AllTransient(Generates(trace))
    /\ Generates(trace)[3].error = {"UNAVAILABLE"}
    /\ out[Len(out)] = "An error occurred during API call"

ResolutionDiagnostics ==
    {"Error: Local file not found", "Error downloading from URL",
     "Error downloading from GCS", "Error: Invalid GCS path format",
     "Error loading image"}

Reported(o, diags) == SelectSeq(o, LAMBDA d : d \in diags)

\* C2: in every command, when the image of slot k did not resolve or load,
\* that slot is the last one resolved (the slots are taken in increasing
\* order, so none of k+1..N is), no generate call is issued, and exactly one
\* resolution failure is reported.
C2_FailFast ==
    LET r == Resolves(trace)
    IN /\ \A i, j \in 1..Len(r) : i < j => r[i].slot < r[j].slot
       /\ \A i \in 1..Len(r) :
            ~r[i].ok =>
                /\ i = Len(r)
                /\ Generates(trace) = <<>>
                /\ Len(Reported(out, ResolutionDiagnostics)) = 1
                /\ pc = "exit"
       /\ (\A i \in 1..Len(r) : r[i].ok) =>
            Reported(out, ResolutionDiagnostics) = <<>>

\* compose: the second image fails while a third is given
C2_Witness ==
    /\ args.command = "compose"
    /\ Truthy(args.slots[3])
    /\ Len(Resolves(trace)) = 2
    /\ Resolves(trace)[2].slot = 2
    /\ ~Resolves(trace)[2].ok
    /\ pc = "exit" /\ ~interrupted

\* the references of the slots that are set, in declaration order
PresentRefs(slots) == SelectSeq(slots, LAMBDA ref : Truthy(ref))

\* the images of refs in their order, then the prompt, and nothing else
ImagesThenPrompt(cs, refs, prompt) ==
    /\ Len(cs) = Len(refs) + 1
    /\ \A i \in 1..Len(refs) : cs[i].part = "image" /\ cs[i].data = refs[i]
    /\ cs[Len(cs)] = TextPart(prompt)

\* nothing the run attempted has failed before the generate call
NothingFailed ==
    /\ \A i \in 1..Len(Resolves(trace)) : Resolves(trace)[i].ok
    /\ \A i \in 1..Len(out) : out[i] # "Client not initialized. Cannot proceed."

\* C3: a compose invocation with a non-empty subset of its three slots set,
\* all of them resolving, hands the generate call exactly the images of the
\* set slots in declaration order followed by the prompt (only input_file2 set
\* gives the image of input_file2 and the prompt).
C3_ComposeContents ==
    (/\ args.command = "compose"
     /\ pc = "exit" /\ ~interrupted
     /\ PresentRefs(args.slots) # <<>>
     /\ NothingFailed) =>
        /\ Generates(trace) # <<>>
        /\ \A i \in 1..Len(Generates(trace)) :
             ImagesThenPrompt(Generates(trace)[i].contents, PresentRefs(args.slots),
                              args.prompt)

ResponseOutcomes ==
    {"No candidates returned in the response.",
     "No image data received in the response.", "Output image saved"}

\* the set of the elements of a sequence
Range(seq) == {seq[i] : i \in 1..Len(seq)}

ImageParts(resp) == SelectSeq(Flatten(resp.candidates), LAMBDA part : part.data # 0)

\* C4: a successful response has exactly one outcome: without candidates it
\* is "no candidates" and the file is not written; with candidates but no
\* image part it is "no image" and the file is not written; with an image part
\* it is "image written" and the file holds the payload, whatever text parts
\* come before or after it.
C4_OneOutcome ==
    (pc = "exit" /\ ~interrupted /\ response.received) =>
        LET outcomes == Range(Reported(out, ResponseOutcomes))
            images == ImageParts(response)
        IN /\ response.candidates = <<>> =>
                /\ outcomes = {"No candidates returned in the response."}
                /\ outfile = UNTOUCHED
           /\ (response.candidates # <<>> /\ images = <<>>) =>
                /\ outcomes = {"No image data received in the response."}
                /\ outfile = UNTOUCHED
           /\ images # <<>> =>
                /\ outcomes = {"Output image saved"}
                /\ outfile = images[Len(images)].data

\* C5: when the invocation has ended, on any of its paths, the temporary
\* directory of the handler and every temporary file made while resolving the
\* input references are gone, and no directory was made outside the handler's.
C5_TempRemoved ==
    pc = "exit" => (~tempDir /\ tempFiles = {} /\ strayDirs = 0)

\* a downloaded object was in the temporary directory and the generate call
\* failed afterwards
C5_Witness ==
    /\ pc = "exit"
    /\ Events(trace, "temp file") # <<>>
    /\ Generates(trace) # <<>>
    /\ ~Generates(trace)[Len(Generates(trace))].ok
    /\ ~tempDir /\ tempFiles = {}

\* C6: every generate call carries a configuration with the aspect ratio the
\* caller selected, one of the ten valid ratios, together with candidate count
\* 1 and the response modalities.
C6_ConfigAspect ==
    \A i \in 1..Len(Generates(trace)) :
        LET config == Generates(trace)[i].config
        IN /\ config.candidate_count = 1
           /\ config.response_modalities = <<"IMAGE">>
           /\ args.aspect_ratio \in VALID_ASPECT_RATIOS
           /\ "aspect_ratio" \in DOMAIN config
           /\ config.aspect_ratio = args.aspect_ratio

\* the invocation has failed: an input did not resolve, there is no client,
\* or the last generate call failed
Failed ==
    \/ \E i \in 1..Len(Resolves(trace)) : ~Resolves(trace)[i].ok
    \/ "Client not initialized. Cannot proceed." \in Range(out)
    \/ /\ Generates(trace) # <<>>
       /\ ~Generates(trace)[Len(Generates(trace))].ok

\* C7: an invocation that ends in a failure which the handler has dealt with
\* ends the process with a non-successful exit status.
C7_FailureStatus ==
    (pc = "exit" /\ ~interrupted /\ Failed) => exitStatus # EXIT_OK

\* the two parts of a reference after gs://, both non-empty
TwoNonEmptyParts(ref) ==
    LET parts == SplitFirst(From(ref, 6))
    IN Len(parts) = 2 /\ parts[1] # <<>> /\ parts[2] # <<>>

\* C8: a reference gs://<rest> whose <rest> does not split on its first "/"
\* into a non-empty bucket and a non-empty key is refused as an invalid path
\* without an object-store download being attempted; a reference that does is
\* downloaded from that bucket under that key.
C8_GcsRejected ==
    \A i \in 1..Len(Resolves(trace)) :
        LET ref == Resolves(trace)[i].ref
            downloads == Events(trace, "download_to_filename")
        IN StartsWith(ref, GS) =>
             IF TwoNonEmptyParts(ref)
             THEN \A d \in 1..Len(downloads) :
                      /\ downloads[d].bucket = SplitFirst(From(ref, 6))[1]
                      /\ downloads[d].blob = SplitFirst(From(ref, 6))[2]
             ELSE /\ ~Resolves(trace)[i].ok
                  /\ downloads = <<>>
                  /\ Reported(out, ResolutionDiagnostics) =
                         <<"Error: Invalid GCS path format">>

Inits(tr) == Events(tr, "initialize_client")

\* one step keeps the client: the constructor runs only while there is no
\* handle and only inside a call of initialize_client; once there is a handle
\* it stays the same, no constructor call is added, and every call of
\* initialize_client the step makes returns it
ClientKept ==
    /\ Events(trace', "Client") # Events(trace, "Client") =>
          /\ client = 0
          /\ Len(Inits(trace')) > Len(Inits(trace))
    /\ (client = 0 /\ client' # 0) =>
          /\ Constructed(trace) = 0
          /\ Constructed(trace') = 1
    /\ client # 0 =>
          /\ client' = client
          /\ Events(trace', "Client") = Events(trace, "Client")
          /\ \A i \in (Len(Inits(trace)) + 1)..Len(Inits(trace')) :
                Inits(trace')[i].ret = client

\* C9: the client handle is constructed on the first use; once a construction
\* has succeeded the constructor is never invoked again, the stored handle
\* never changes, and every later call of initialize_client returns it.
C9_ClientOnce == [][ClientKept]_vars

\* initialize_client was called for an object download and again for the
\* generate call, and returned the handle of the first call
C9_Witness ==
    /\ client # 0
    /\ Len(Inits(trace)) >= 2
    /\ Inits(trace)[1].ret = client
    /\ Inits(trace)[Len(Inits(trace))].ret = client
    /\ Constructed(trace) = 1

\* the class of an input string, by its prefix
HasPrefix(s, p) == Len(s) >= Len(p) /\ \A i \in 1..Len(p) : s[i] = p[i]
Class(s) ==
    IF HasPrefix(s, <<"h", "t", "t", "p", ":", "/", "/">>)
       \/ HasPrefix(s, <<"h", "t", "t", "p", "s", ":", "/", "/">>)
    THEN "RemoteHttp"
    ELSE IF HasPrefix(s, <<"g", "s", ":", "/", "/">>) THEN "RemoteObjectStore"
    ELSE "Local"
StrategyOf(class) ==
    CASE class = "RemoteHttp" -> "url"
      [] class = "RemoteObjectStore" -> "gcs"
      [] class = "Local" -> "local"

\* C10: each input string is fetched by exactly one strategy, the one of its
\* class by prefix (http:// or https:// first, then gs://, else local), in
\* every state of the file system and the network; the other strategies
\* leave no trace.
C10_OneStrategy ==
    LET fetches == Events(trace, "fetch")
    IN /\ Len(fetches) <= 1
       /\ Len(Resolves(trace)) = Len(fetches)
       /\ \A i \in 1..Len(fetches) :
            LET kind == fetches[i].kind
            IN /\ kind = StrategyOf(Class(fetches[i].ref))
               /\ kind # "gcs" =>
                    /\ Events(trace, "download_to_filename") = <<>>
                    /\ Inits(trace) = <<>>
                    /\ Range(out) \cap {"Error downloading from GCS",
                                        "Error: Invalid GCS path format"} = {}
               /\ kind # "url" => "Error downloading from URL" \notin Range(out)
               /\ kind # "local" => "Error: Local file not found" \notin Range(out)
               /\ kind = "local" => Events(trace, "temp file") = <<>>

\* an https reference was fetched from the web while the network was down
C10_Witness ==
    /\ Events(trace, "fetch") # <<>>
    /\ Events(trace, "fetch")[1].kind = "url"
    /\ HasPrefix(Events(trace, "fetch")[1].ref, HTTPS)
    /\ "Error downloading from URL" \in Range(out)
    /\ pc = "exit"

\* the positions of the constructor calls in a trace
CtorAt(tr) == {i \in 1..Len(tr) : tr[i].ev = "Client"}

\* the number of constructor calls up to position i
CtorsUpTo(tr, i) == Cardinality({j \in CtorAt(tr) : j <= i})

\* C11: the client constructor is called at most 3 times; a failed first call
\* is followed by a sleep of 1 second and a second call, a failed second call
\* by a sleep of 2 seconds and a third call, a successful call by no further
\* call; after a failed third call there is no sleep, initialize_client
\* reports the failure and returns no client, no generate call is issued and
\* the output file is not written.
C11_CtorBound ==
    /\ Cardinality(CtorAt(trace)) <= 3
    /\ \A i \in CtorAt(trace) :
         LET k == CtorsUpTo(trace, i)
         IN IF trace[i].ok
            THEN \A j \in CtorAt(trace) : j <= i
            ELSE IF k < 3
            THEN /\ i + 2 <= Len(trace)
                 /\ trace[i + 1] = SleepEv(2 ^ (k - 1))
                 /\ trace[i + 2].ev = "Client"
            ELSE /\ i + 1 <= Len(trace)
                 /\ trace[i + 1] = InitEv(0)
                 /\ client = 0
                 /\ "Error initializing client" \in Range(out)
                 /\ Generates(trace) = <<>>
                 /\ Events(trace, "write") = <<>>
                 /\ outfile = UNTOUCHED

\* the three constructor calls of the generate call's initialization failed
C11_Witness ==
    /\ pc = "exit" /\ ~interrupted
    /\ Cardinality(CtorAt(trace)) = 3
    /\ \A i \in CtorAt(trace) : ~trace[i].ok
    /\ Events(trace, "sleep") = <<SleepEv(1), SleepEv(2)>>
    /\ "Client not initialized. Cannot proceed." \in Range(out)

Writes(tr) == Events(tr, "write")

\* a write of an image payload to the output file has failed
WriteFailed == \E i \in 1..Len(Writes(trace)) : ~Writes(trace)[i].ok

\* the generate call was issued once with success and not again
NotReissued ==
    /\ Generates(trace) # <<>>
    /\ Generates(trace)[Len(Generates(trace))].ok
    /\ \A i \in 1..(Len(Generates(trace)) - 1) : ~Generates(trace)[i].ok
    /\ \A i \in 1..Len(trace) :
          trace[i].ev = "write" =>
              \A j \in i..Len(trace) : trace[j].ev # "generate_content"

\* C12: when the write of an image payload to the output file has failed, the
\* outcome reported at the end of the invocation is the write error, neither
\* "no image" nor "image written", and the generate call is not issued again
\* after the failed write.
C12_WriteError ==
    (pc = "exit" /\ ~interrupted /\ WriteFailed) =>
        /\ "Error saving image" \in Range(out)
        /\ Range(Reported(out, ResponseOutcomes)) = {}
        /\ NotReissued

\* C13: every call of initialize_client that returns a client handle leaves
\* the object-store client constructed; so after a call that constructed the
\* client but not the object-store client, no later call returns the handle
\* while the object-store client is unset (the object-store client, once set,
\* stays set).
C13_BothClients ==
    (\E i \in 1..Len(Inits(trace)) : Inits(trace)[i].ret # 0) => gcs_client

\* the file is written only by the handling of a response that has an image
\* part, with one write for each image part and in their order
WrittenOnlyForImages ==
    /\ Writes(trace) # <<>> =>
          /\ response.received
          /\ Len(Writes(trace)) = Len(ImageParts(response))
          /\ \A i \in 1..Len(Writes(trace)) :
                Writes(trace)[i].data = ImageParts(response)[i].data
          /\ Generates(trace) # <<>>
          /\ Generates(trace)[Len(Generates(trace))].ok
    /\ Writes(trace) = <<>> => outfile = UNTOUCHED

\* the data of the writes that succeeded
WrittenData == {Writes(trace)[i].data : i \in {j \in 1..Len(Writes(trace)) : Writes(trace)[j].ok}}

\* C14 as amended: the output file is created or modified only by the
\* handling of a response that has an image part, and is left as it was on
\* every other path; when the write of the last image part succeeds the file
\* holds its bytes; when that write fails the file is as it was, or holds an
\* earlier image part that was written, or is truncated.
C14_Frame ==
    /\ WrittenOnlyForImages
    /\ Writes(trace) # <<>> =>
          IF Writes(trace)[Len(Writes(trace))].ok
          THEN outfile = ImageParts(response)[Len(ImageParts(response))].data
          ELSE outfile \in {UNTOUCHED, TRUNCATED} \cup WrittenData

\* C14 as stated: the output file is created or modified only by the handling
\* of a response that has an image part, and when the response has several
\* image parts the file ends up holding the bytes of the last one.
C14_LastImage ==
    /\ WrittenOnlyForImages
    /\ (pc = "exit" /\ response.received /\ Len(ImageParts(response)) >= 2) =>
          outfile = ImageParts(response)[Len(ImageParts(response))].data

\* two image parts were written one after the other, the file holds the second
C14_Witness ==
    /\ pc = "exit"
    /\ Len(Writes(trace)) = 2
    /\ Writes(trace)[1].ok /\ Writes(trace)[2].ok
    /\ Writes(trace)[1].data = 1 /\ Writes(trace)[2].data = 2
    /\ outfile = 2

====
